---- MODULE Spec2Model ----
(***************************************************************************)
(* Model of SessionStore (src/backend/app/store.py): an in-memory index    *)
(* of per-user, per-app sessions mirrored to a SQLite table.               *)
(*                                                                         *)
(* Every public method runs entirely inside `with self.lock` (an RLock),   *)
(* so each method is one atomic action in Spec.  LockSpec models the       *)
(* callers as threads that take the lock and run a method statement by     *)
(* statement.                                                              *)
(***************************************************************************)
EXTENDS Integers, FiniteSets, Sequences, TLC

VARIABLES
    store,              \* "none" | "ok" | "failed": outcome of SessionStore(...)
    sessions,           \* self.sessions: Unset, or Attr(map session_id -> session_info)
    user_app_sessions,  \* self.user_app_sessions: user_id -> (app_slug -> session_id)
    db,                 \* rows of the SQLite table `sessions` (session_id is the key)
    now,                \* the wall clock (UTC)
    last,               \* the most recent call and what it returned
    lock,               \* self.lock, an RLock: the owning thread and its depth
    thr,                \* per thread: where it is in the call it is making
    inflight            \* requests inside the cleanup middleware whose handler
                        \* has answered: the handlers' responses

vars == <<store, sessions, user_app_sessions, db, now, last, lock, thr, inflight>>

----------------------------------------------------------------------------
(* Bounds of the model *)

MaxDay == 2          \* the clock runs over days 0..MaxDay
MaxSec == 1          \* and over seconds 0..MaxSec within a day
MaxRows == 2         \* rows already in the table when the store is constructed
MaxInflight == 1     \* requests that can be inside the middleware at a time

Users == {"u1", "u2"}
Apps == {"github", "slack"}
Sids == {"sid-1", "sid-2"}

----------------------------------------------------------------------------
(* Values *)

NoValue == "None"        \* Python None, SQL NULL, or dict.get() of an absent key
NoTime == [day |-> -1, sep |-> "", sec |-> -1]   \* None / NULL in a timestamp field
Missing == "MISSING"     \* a key that is not in the session_info dict
EmptyMap == [x \in {} |-> NoValue]   \* the empty dict {}

\* An object attribute holding a dict: either never assigned (reading it
\* raises AttributeError) or assigned a dict.
Unset == [defined |-> FALSE, map |-> EmptyMap]
Attr(d) == [defined |-> TRUE, map |-> d]

\* A timestamp string: date, separator, time of day.  datetime.isoformat()
\* separates with "T", SQLite's datetime('now') with a space.
IsoTime(d, s) == [day |-> d, sep |-> "T", sec |-> s]
SqlTime(d, s) == [day |-> d, sep |-> " ", sec |-> s]
Days == 0..MaxDay
Secs == 0..MaxSec
IsoTimes == {IsoTime(d, s) : d \in Days, s \in Secs}

\* Code point order of the two separators: " " (0x20) sorts before "T" (0x54).
SepRank(c) == IF c = "T" THEN 1 ELSE 0

\* SQLite compares the TEXT values of expires_at and datetime('now') byte by
\* byte (BINARY collation): date first, then the separator, then the time.
TextLess(x, y) ==
    \/ x.day < y.day
    \/ x.day = y.day /\ SepRank(x.sep) < SepRank(y.sep)
    \/ x.day = y.day /\ SepRank(x.sep) = SepRank(y.sep) /\ x.sec < y.sec

\* datetime('now') in SQLite and datetime.utcnow() in Python
SqlNow == SqlTime(now.day, now.sec)

\* datetime.fromisoformat(s) < datetime.fromisoformat(t): the instants compare
InstantLess(x, y) == x.day < y.day \/ (x.day = y.day /\ x.sec < y.sec)

\* A string that datetime.fromisoformat() rejects with ValueError
Garbage == [day |-> 0, sep |-> "?", sec |-> 0]
IsoParses(e) == e.sep \in {"T", " "}

\* utcnow() + timedelta(hours=24), as isoformat()
PlusOneDay(t) == IsoTime(t.day + 1, t.sec)

\* Python truthiness of a string-or-None value
Falsy(x) == x = NoValue \/ x = ""

----------------------------------------------------------------------------
(* Python dict helpers: a dict is a function over the set of its keys *)

HasKey(d, k) == k \in DOMAIN d
DictPut(d, k, v) == [x \in (DOMAIN d) \cup {k} |-> IF x = k THEN v ELSE d[x]]
DictDel(d, k) == [x \in (DOMAIN d) \ {k} |-> d[x]]
DictValues(d) == {d[k] : k \in DOMAIN d}

\* dict.get(key): None when the key is absent
Get(d, k) == IF k \in DOMAIN d THEN d[k] ELSE NoValue
GetTime(d, k) == IF k \in DOMAIN d THEN d[k] ELSE NoTime

----------------------------------------------------------------------------
(* The durable table *)

\* One row of CREATE TABLE sessions (session_id is the PRIMARY KEY).
Row(sid, u, a, st, md, c, la, e) ==
    [session_id |-> sid, user_id |-> u, app_slug |-> a, status |-> st,
     metadata |-> md, created_at |-> c, last_accessed |-> la, expires_at |-> e]

RowIds(t) == {row.session_id : row \in t}

\* INSERT OR REPLACE: a row with the same primary key is deleted first; rows
\* with another session_id are untouched, whatever their user and app.
InsertOrReplace(t, row) ==
    {x \in t : x.session_id # row.session_id} \cup {row}

\* DELETE FROM sessions WHERE session_id = ?
DeleteById(t, sid) == {x \in t : x.session_id # sid}

\* DELETE FROM sessions WHERE expires_at IS NOT NULL AND expires_at < datetime('now')
DeleteExpiredRows(t) ==
    {x \in t : ~(x.expires_at # NoTime /\ TextLess(x.expires_at, SqlNow))}

\* SELECT * FROM sessions WHERE status = 'active'
\*   AND (expires_at IS NULL OR expires_at > datetime('now'))
SelectLoadable(t) ==
    {x \in t : x.status = "active"
               /\ (x.expires_at = NoTime \/ TextLess(SqlNow, x.expires_at))}

\* json.loads(row["metadata"]): "null" parses to None, "{bad" does not parse
JsonParses(md) == md # "{bad"
JsonLoads(md) == IF md = "null" THEN NoValue ELSE md

\* The session_data dict built from one selected row
SessionData(row) ==
    IF Falsy(row.metadata)
    THEN [session_id |-> row.session_id, user_id |-> row.user_id,
          app_slug |-> row.app_slug, status |-> row.status,
          created_at |-> row.created_at, last_accessed |-> row.last_accessed,
          expires_at |-> row.expires_at]
    ELSE [session_id |-> row.session_id, user_id |-> row.user_id,
          app_slug |-> row.app_slug, status |-> row.status,
          created_at |-> row.created_at, last_accessed |-> row.last_accessed,
          expires_at |-> row.expires_at, metadata |-> JsonLoads(row.metadata)]

----------------------------------------------------------------------------
(* Reads of the in-memory state *)

\* self.user_app_sessions.get(user_id, {})
UserApps(idx, u) == IF HasKey(idx, u) THEN idx[u] ELSE EmptyMap

\* has_session(user_id, app_slug)
HasSessionIn(I, u, a) == HasKey(UserApps(I, u), a)

\* get_session(user_id, app_slug): None, a record, or AttributeError when the
\* lookup reaches self.sessions and the attribute does not exist
GetSessionIn(S, I, u, a) ==
    LET sid == Get(UserApps(I, u), a)
    IN  IF Falsy(sid) THEN [kind |-> "none"]
        ELSE IF ~S.defined THEN [kind |-> "raise"]
        ELSE IF HasKey(S.map, sid)
             THEN [kind |-> "record", record |-> S.map[sid]]
             ELSE [kind |-> "none"]

\* get_user_sessions(user_id): one list entry per app of the user whose
\* session_id is found in self.sessions (entries are keyed here by that app)
GetUserSessionsIn(S, I, u) ==
    LET apps == UserApps(I, u)
    IN  IF DOMAIN apps = {} THEN [kind |-> "list", entries |-> EmptyMap]
        ELSE IF ~S.defined THEN [kind |-> "raise"]
        ELSE [kind |-> "list",
              entries |-> [k \in {x \in DOMAIN apps : HasKey(S.map, apps[x])}
                             |-> S.map[apps[k]]]]

RECURSIVE SumApps(_, _)
SumApps(idx, us) ==
    IF us = {} THEN 0
    ELSE LET u == CHOOSE x \in us : TRUE
         IN  Cardinality(DOMAIN idx[u]) + SumApps(idx, us \ {u})

\* get_session_count(): len(self.sessions) is evaluated first
GetSessionCountIn(S, I) ==
    IF ~S.defined THEN [kind |-> "raise"]
    ELSE [kind |-> "counts",
          total_sessions |-> Cardinality(DOMAIN S.map),
          active_users |-> Cardinality(DOMAIN I),
          total_app_connections |-> SumApps(I, DOMAIN I)]

\* The four reads on the current state of the store
has_session(u, a) == HasSessionIn(user_app_sessions, u, a)
get_session(u, a) == GetSessionIn(sessions, user_app_sessions, u, a)
get_user_sessions(u) == GetUserSessionsIn(sessions, user_app_sessions, u)
get_session_count == GetSessionCountIn(sessions, user_app_sessions)

----------------------------------------------------------------------------
(* Construction *)

\* __init__ assigns use_sqlite, db_path, user_app_sessions and lock; it never
\* assigns self.sessions, so the attribute does not exist on a new object.
InitSessions == Unset

\* All orders in which the elements of a finite set can be listed
SeqsOf(S) ==
    {q \in [1..Cardinality(S) -> S] : \A x \in S : \E i \in DOMAIN q : q[i] = x}

\* The loop of _load_sessions_from_db over the selected rows, in the order
\* the SELECT returned them.  The result is the dicts after the loop, or a
\* raise at the first row whose metadata does not parse or whose
\* self.sessions[...] assignment fails.
RECURSIVE LoadRows(_, _, _, _)
LoadRows(S, I, rows, i) ==
    IF i > Len(rows) THEN [raised |-> FALSE, sessions |-> S, idx |-> I]
    ELSE LET row == rows[i]
             data == SessionData(row)
         IN  IF ~Falsy(row.metadata) /\ ~JsonParses(row.metadata)
                 THEN [raised |-> TRUE, sessions |-> S, idx |-> I]
             ELSE IF ~S.defined
                 THEN [raised |-> TRUE, sessions |-> S, idx |-> I]
             ELSE LoadRows(Attr(DictPut(S.map, row.session_id, data)),
                           DictPut(I, data.user_id,
                                   DictPut(UserApps(I, data.user_id),
                                           data.app_slug, row.session_id)),
                           rows, i + 1)

\* SessionStore(): __init__, _init_database and _load_sessions_from_db.
\* `fail` is a sqlite3 error while opening, creating or reading the table.
ConstructEffect(D, fail, rows) ==
    IF fail THEN [raised |-> TRUE, sessions |-> InitSessions, idx |-> EmptyMap]
    ELSE LoadRows(InitSessions, EmptyMap, rows, 1)

----------------------------------------------------------------------------
(* Mutations; each returns the new dicts, the new table and the outcome *)

Outcome(S, I, D, res) == [sessions |-> S, idx |-> I, db |-> D, result |-> res]

\* The row written by store_session's INSERT OR REPLACE
StoredRow(u, a, r) ==
    Row(r.session_id, u, a, "active", "null",
        IF r.created_at = NoTime THEN IsoTime(now.day, now.sec) ELSE r.created_at,
        IsoTime(now.day, now.sec),
        PlusOneDay(now))

\* store_session whose except clause lets the KeyError of a missing
\* session_id through
StoreEffect_keyErrorEscapes(S, I, D, u, a, r, fail) ==
    IF r.session_id = Missing THEN Outcome(S, I, D, "raise")
    ELSE IF ~S.defined THEN Outcome(S, I, D, "false")
    ELSE LET S1 == Attr(DictPut(S.map, r.session_id, r))
             I1 == DictPut(I, u, DictPut(UserApps(I, u), a, r.session_id))
         IN  IF fail THEN Outcome(S1, I1, D, "false")
             ELSE Outcome(S1, I1, InsertOrReplace(D, StoredRow(u, a, r)), "true")

\* store_session(user_id, app_slug, session_info); `fail` is an exception
\* raised by the durable write (connect, execute or commit)
StoreEffect(S, I, D, u, a, r, fail) ==
    IF ~S.defined \/ r.session_id = Missing
        THEN Outcome(S, I, D, "false")
    ELSE LET S1 == Attr(DictPut(S.map, r.session_id, r))
             I1 == DictPut(I, u, DictPut(UserApps(I, u), a, r.session_id))
         IN  IF fail THEN Outcome(S1, I1, D, "false")
             ELSE Outcome(S1, I1, InsertOrReplace(D, StoredRow(u, a, r)), "true")

\* remove_session that reports success also when the pair is not in the index
RemoveEffect_alwaysTrue(S, I, D, u, a, fail) ==
    IF ~(HasKey(I, u) /\ HasKey(I[u], a))
        THEN Outcome(S, I, D, "true")
    ELSE LET sid == I[u][a]
             apps1 == DictDel(I[u], a)
             I1 == IF DOMAIN apps1 = {} THEN DictDel(I, u) ELSE DictPut(I, u, apps1)
         IN  IF ~S.defined THEN Outcome(S, I1, D, "raise")
             ELSE LET S1 == IF HasKey(S.map, sid) THEN Attr(DictDel(S.map, sid)) ELSE S
                  IN  IF fail THEN Outcome(S1, I1, D, "raise")
                      ELSE Outcome(S1, I1, DeleteById(D, sid), "true")

\* remove_session(user_id, app_slug); `fail` is an exception raised by the
\* durable DELETE, which the method does not catch
RemoveEffect(S, I, D, u, a, fail) ==
    IF ~(HasKey(I, u) /\ HasKey(I[u], a))
        THEN Outcome(S, I, D, "false")
    ELSE LET sid == I[u][a]
             apps1 == DictDel(I[u], a)
             I1 == IF DOMAIN apps1 = {} THEN DictDel(I, u) ELSE DictPut(I, u, apps1)
         IN  IF ~S.defined THEN Outcome(S, I1, D, "raise")
             ELSE LET S1 == IF HasKey(S.map, sid) THEN Attr(DictDel(S.map, sid)) ELSE S
                  IN  IF fail THEN Outcome(S1, I1, D, "raise")
                      ELSE Outcome(S1, I1, DeleteById(D, sid), "true")

\* The session_ids the sweep collects in expired_sessions: records whose
\* expires_at has passed or does not parse
ExpiredInMemory(S) ==
    IF ~S.defined THEN {}
    ELSE {sid \in DOMAIN S.map :
            LET e == GetTime(S.map[sid], "expires_at")
            IN  e # NoTime /\ (~IsoParses(e) \/ InstantLess(e, now))}

\* The removal loop of the sweep over expired_sessions[i..]; the durable
\* DELETE of the failAt-th remove_session raises and ends the sweep.
RECURSIVE SweepLoop(_, _, _, _, _, _)
SweepLoop(S, I, D, order, i, failAt) ==
    IF i > Len(order) THEN Outcome(S, I, D, "none")
    ELSE IF ~HasKey(S.map, order[i]) THEN SweepLoop(S, I, D, order, i + 1, failAt)
             ELSE LET data == S.map[order[i]]
                      u == Get(data, "user_id")
                      a == Get(data, "app_slug")
                  IN  IF Falsy(u) \/ Falsy(a)
                          THEN SweepLoop(S, I, D, order, i + 1, failAt)
                      ELSE LET o == RemoveEffect(S, I, D, u, a, i = failAt)
                           IN  IF o.result = "raise"
                                   THEN Outcome(o.sessions, o.idx, o.db, "none")
                               ELSE SweepLoop(o.sessions, o.idx, o.db,
                                              order, i + 1, failAt)

\* A sweep without its except clause: a failing DELETE leaves by exception
CleanupEffect_raises(S, I, D, fail, order, failAt) ==
    IF fail THEN Outcome(S, I, D, "raise")
    ELSE IF ~S.defined THEN Outcome(S, I, DeleteExpiredRows(D), "none")
    ELSE SweepLoop(S, I, DeleteExpiredRows(D), order, 1, failAt)

\* cleanup_expired_sessions(); `fail` is an exception raised by the durable
\* DELETE of expired rows.  Every exception is caught and logged.
CleanupEffect(S, I, D, fail, order, failAt) ==
    IF fail THEN Outcome(S, I, D, "none")
    ELSE IF ~S.defined THEN Outcome(S, I, DeleteExpiredRows(D), "none")
    ELSE SweepLoop(S, I, DeleteExpiredRows(D), order, 1, failAt)

----------------------------------------------------------------------------
(* The HTTP endpoints that disconnect an app, and the cleanup middleware *)

\* main.py disconnect_app: 404 when remove_session returns False; an
\* exception out of remove_session is not caught and becomes a 500
DisconnectEffect(S, I, D, u, a, fail) ==
    LET o == RemoveEffect(S, I, D, u, a, fail)
    IN  Outcome(o.sessions, o.idx, o.db,
                IF o.result = "true" THEN "200"
                ELSE IF o.result = "false" THEN "404" ELSE "500")

\* cleanup_expired_sessions_middleware after `await call_next(request)` has
\* come back with the handler's response resp (lines 904-912): about once
\* in 100 requests (sweep # "no") the sweep runs, inside try/except, on the
\* store as it is by then; resp is returned in every case.
MiddlewareEffect(S, I, D, resp, sweep, order, failAt) ==
    IF sweep = "no" THEN Outcome(S, I, D, resp)
    ELSE LET o == CleanupEffect(S, I, D, sweep = "fail", order, failAt)
         IN  Outcome(o.sessions, o.idx, o.db, resp)

\* A list without its i-th element
RemoveAt(q, i) == SubSeq(q, 1, i - 1) \o SubSeq(q, i + 1, Len(q))

\* api/endpoints/auth.py line 112, `from app.store import session_store`:
\* store.py defines no name session_store, so the import raises ImportError
ImportsSessionStore == FALSE

\* api/endpoints/auth.py disconnect_app: the whole body is inside
\* try / except Exception, which turns every exception, the HTTPException
\* 404 of a missing session included, into a 400
AuthDisconnectEffect(S, I, D, u, a, fail) ==
    IF ~ImportsSessionStore THEN Outcome(S, I, D, "400")
    ELSE LET o == RemoveEffect(S, I, D, u, a, fail)
         IN  Outcome(o.sessions, o.idx, o.db,
                     IF o.result = "true" THEN "200" ELSE "400")

----------------------------------------------------------------------------
(* Inputs *)

\* The session_info dicts callers pass: session_id may be absent; user_id
\* and app_slug repeat the arguments (as the connect handler builds them);
\* created_at and expires_at are optional, and expires_at may be a string
\* that is no timestamp.
RecCreated == {NoTime, IsoTime(0, 0)}
RecExpiries == {NoTime, IsoTime(1, 0), Garbage}
RecTimes ==
    {ce \in RecCreated \X RecExpiries :
        ce[1] = NoTime \/ ce[2] = IsoTime(1, 0)}
SessionInfo(sid, u, a, c, e) ==
    [session_id |-> sid, user_id |-> u, app_slug |-> a,
     created_at |-> c, expires_at |-> e]
SessionInfos(u, a) ==
    {SessionInfo(sid, u, a, ce[1], ce[2]) :
        sid \in Sids \cup {Missing}, ce \in RecTimes}
NoInfo == SessionInfo(NoValue, NoValue, NoValue, NoTime, NoTime)

\* Tables a previous process may have left behind: at most MaxRows rows of
\* one user, of any status, with no expiry or an isoformat() expiry on day 1
\* (in the future on day 0, passed during day 1, a past date on day 2).
\* A row's metadata is the JSON text "null", or text that is not JSON on an
\* active row without expiry.
SeedRow(sid, sh) ==
    Row(sid, sh.user_id, sh.app_slug, sh.status, sh.metadata,
        IsoTime(0, 0), IsoTime(0, 0), sh.expires_at)
SeedShapes ==
    [user_id : {"u1"}, app_slug : Apps, status : {"active", "expired"},
     expires_at : {NoTime, IsoTime(1, 0)}, metadata : {"null"}]
    \cup [user_id : {"u1"}, app_slug : {"github"}, status : {"active"},
          expires_at : {NoTime}, metadata : {"{bad"}]
SeedTables ==
    UNION {{{SeedRow(k, f[k]) : k \in K} : f \in [K -> SeedShapes]} :
              K \in {X \in SUBSET Sids : Cardinality(X) <= MaxRows}}

Call(op, u, a, r, fail, res) ==
    [op |-> op, user_id |-> u, app_slug |-> a, info |-> r,
     fail |-> fail, result |-> res]

\* The record of a sweep also says when the sweep ran
SweepCall(fail, res) ==
    [op |-> "cleanup_expired_sessions", user_id |-> NoValue,
     app_slug |-> NoValue, info |-> NoInfo, fail |-> fail, result |-> res,
     at |-> now]

NoCall == Call("none", NoValue, NoValue, NoInfo, FALSE, "none")

\* The threads that call into the one SessionStore of the process
Threads == {"t1", "t2"}

\* threading.RLock(): not owned, or owned by one thread that acquired it
\* `depth` times
Free == [owner |-> NoValue, depth |-> 0]

\* A thread that is not calling the store.  `call` is the method it called;
\* `session_id` is the local variable of remove_session, `expired` what is
\* left of the sweep's list expired_sessions, and `inner` the remove_session
\* the sweep has called at line 220 and not yet returned from.
Idle == [pc |-> "idle", call |-> NoCall, session_id |-> NoValue,
         expired |-> << >>, inner |-> NoCall]

----------------------------------------------------------------------------
(* The state machine *)

Init ==
    /\ store = "none"
    /\ sessions = Unset
    /\ user_app_sessions = EmptyMap
    /\ db \in SeedTables
    /\ now = [day |-> 0, sec |-> 0]
    /\ last = NoCall
    /\ lock = Free
    /\ thr = [t \in Threads |-> Idle]
    /\ inflight = <<>>

\* A process starts (or restarts) and builds its SessionStore over the table
Construct ==
    \E fail \in BOOLEAN, rows \in SeqsOf(SelectLoadable(db)) :
        LET o == ConstructEffect(db, fail, rows)
        IN  /\ store' = IF o.raised THEN "failed" ELSE "ok"
            /\ sessions' = IF o.raised THEN Unset ELSE o.sessions
            /\ user_app_sessions' = IF o.raised THEN EmptyMap ELSE o.idx
            /\ last' = Call("construct", NoValue, NoValue, NoInfo, fail,
                            IF o.raised THEN "raise" ELSE "none")
            /\ inflight' = <<>>
            /\ UNCHANGED <<lock, thr, db, now>>

StoreSession ==
    /\ store = "ok"
    /\ \E u \in Users, a \in Apps, fail \in BOOLEAN :
         \E r \in SessionInfos(u, a) :
            LET o == StoreEffect(sessions, user_app_sessions, db, u, a, r, fail)
            IN  /\ sessions' = o.sessions
                /\ user_app_sessions' = o.idx
                /\ db' = o.db
                /\ last' = Call("store_session", u, a, r, fail, o.result)
                /\ UNCHANGED <<inflight, lock, thr, store, now>>

RemoveSession ==
    /\ store = "ok"
    /\ \E u \in Users, a \in Apps, fail \in BOOLEAN :
         LET o == RemoveEffect(sessions, user_app_sessions, db, u, a, fail)
         IN  /\ sessions' = o.sessions
             /\ user_app_sessions' = o.idx
             /\ db' = o.db
             /\ last' = Call("remove_session", u, a, NoInfo, fail, o.result)
             /\ UNCHANGED <<inflight, lock, thr, store, now>>

CleanupExpiredSessions ==
    /\ store = "ok"
    /\ \E fail \in BOOLEAN, order \in SeqsOf(ExpiredInMemory(sessions)) :
         \E failAt \in 0..Len(order) :
            LET o == CleanupEffect(sessions, user_app_sessions, db,
                                   fail, order, failAt)
            IN  /\ sessions' = o.sessions
                /\ user_app_sessions' = o.idx
                /\ db' = o.db
                /\ last' = SweepCall(fail, o.result)
                /\ UNCHANGED <<inflight, lock, thr, store, now>>

HasSession ==
    /\ store = "ok"
    /\ \E u \in Users, a \in Apps :
         last' = Call("has_session", u, a, NoInfo, FALSE,
                      IF has_session(u, a) THEN "true" ELSE "false")
    /\ UNCHANGED <<inflight, lock, thr, store, sessions, user_app_sessions, db, now>>

\* get_session that also stamps last_accessed on the rows of the pair
GetSession_touch ==
    /\ store = "ok"
    /\ \E u \in Users, a \in Apps :
         /\ last' = Call("get_session", u, a, NoInfo, FALSE, get_session(u, a).kind)
         /\ db' = {IF x.user_id = u /\ x.app_slug = a
                      THEN [x EXCEPT !.last_accessed = IsoTime(now.day, now.sec)]
                      ELSE x : x \in db}
    /\ UNCHANGED <<inflight, lock, thr, store, sessions, user_app_sessions, now>>

GetSession ==
    /\ store = "ok"
    /\ \E u \in Users, a \in Apps :
         last' = Call("get_session", u, a, NoInfo, FALSE, get_session(u, a).kind)
    /\ UNCHANGED <<inflight, lock, thr, store, sessions, user_app_sessions, db, now>>

GetUserSessions ==
    /\ store = "ok"
    /\ \E u \in Users :
         last' = Call("get_user_sessions", u, NoValue, NoInfo, FALSE,
                      get_user_sessions(u).kind)
    /\ UNCHANGED <<inflight, lock, thr, store, sessions, user_app_sessions, db, now>>

GetSessionCount ==
    /\ store = "ok"
    /\ last' = Call("get_session_count", NoValue, NoValue, NoInfo, FALSE,
                    get_session_count.kind)
    /\ UNCHANGED <<inflight, lock, thr, store, sessions, user_app_sessions, db, now>>

\* DELETE /disconnect_app/{app_slug} of main.py: the middleware passes the
\* request on (line 902) and the handler runs.  Its response goes back to
\* the middleware, where the request waits for MiddlewareReturn; other
\* calls can run in between.  An unhandled exception of the handler (500)
\* leaves the middleware through call_next, without a sweep.
DisconnectApp ==
    /\ store = "ok"
    /\ \E u \in Users, a \in Apps, fail \in BOOLEAN :
         LET h == DisconnectEffect(sessions, user_app_sessions, db, u, a, fail)
         IN  /\ h.result = "500" \/ Len(inflight) < MaxInflight
             /\ sessions' = h.sessions
             /\ user_app_sessions' = h.idx
             /\ db' = h.db
             /\ inflight' = IF h.result = "500" THEN inflight
                             ELSE Append(inflight, h.result)
             /\ last' = Call("disconnect_app", u, a, NoInfo, fail, h.result)
             /\ UNCHANGED <<lock, thr, store, now>>

\* The middleware resumes for a request whose handler has answered (lines
\* 904-912): it may run the sweep, then returns the handler's response
MiddlewareReturn ==
    /\ store = "ok"
    /\ \E i \in DOMAIN inflight, sweep \in {"no", "ok", "fail"} :
         \E order \in SeqsOf(ExpiredInMemory(sessions)) :
           \E failAt \in 0..Len(order) :
             LET o == MiddlewareEffect(sessions, user_app_sessions, db,
                                       inflight[i], sweep, order, failAt)
             IN  /\ sessions' = o.sessions
                 /\ user_app_sessions' = o.idx
                 /\ db' = o.db
                 /\ inflight' = RemoveAt(inflight, i)
                 /\ last' = [op |-> "middleware_return", user_id |-> NoValue,
                             app_slug |-> NoValue, info |-> NoInfo,
                             fail |-> (sweep = "fail"), result |-> o.result,
                             handled |-> inflight[i], sweep |-> sweep]
                 /\ UNCHANGED <<lock, thr, store, now>>

\* POST /auth/disconnect/{appSlug} of api/endpoints/auth.py
AuthDisconnectApp ==
    /\ store = "ok"
    /\ \E u \in Users, a \in Apps, fail \in BOOLEAN :
         LET o == AuthDisconnectEffect(sessions, user_app_sessions, db, u, a, fail)
         IN  /\ sessions' = o.sessions
             /\ user_app_sessions' = o.idx
             /\ db' = o.db
             /\ last' = Call("auth_disconnect_app", u, a, NoInfo, fail, o.result)
             /\ UNCHANGED <<inflight, lock, thr, store, now>>

\* The clock advances to the next instant
Tick ==
    /\ now.day < MaxDay \/ now.sec < MaxSec
    /\ now' = IF now.sec < MaxSec
              THEN [day |-> now.day, sec |-> now.sec + 1]
              ELSE [day |-> now.day + 1, sec |-> 0]
    /\ UNCHANGED <<inflight, lock, thr, store, sessions, user_app_sessions, db, last>>

Next ==
    \/ Construct
    \/ StoreSession
    \/ RemoveSession
    \/ CleanupExpiredSessions
    \/ HasSession
    \/ GetSession
    \/ GetUserSessions
    \/ GetSessionCount
    \/ DisconnectApp
    \/ MiddlewareReturn
    \/ AuthDisconnectApp
    \/ Tick

Spec == Init /\ [][Next]_vars

----------------------------------------------------------------------------
(* The callers as threads: every method body is `with self.lock:` around   *)
(* its statements, and a thread runs the statements one step at a time.    *)

\* Clock reading at which the process starts: late enough for the rows
\* left behind with an expiry to have expired
StartTimes == {[day |-> MaxDay, sec |-> 0]}

\* Tables found at start: at most one row
LockSeedTables == {D \in SeedTables : Cardinality(D) <= 1}

\* The session_info dicts the threads pass: no created_at, no expires_at
ThreadInfos(u, a) ==
    {r \in SessionInfos(u, a) : r.created_at = NoTime /\ r.expires_at = NoTime}

\* The calls a thread can make
ThreadCalls ==
    UNION {{Call("store_session", u, a, r, f, "none") : r \in ThreadInfos(u, a)}
              : u \in Users, a \in Apps, f \in BOOLEAN}
    \cup {Call("remove_session", u, a, NoInfo, f, "none")
              : u \in Users, a \in Apps, f \in BOOLEAN}
    \cup {Call("cleanup_expired_sessions", NoValue, NoValue, NoInfo, f, "none")
              : f \in BOOLEAN}
    \cup {Call(op, u, a, NoInfo, FALSE, "none")
              : op \in {"has_session", "get_session"}, u \in Users, a \in Apps}
    \cup {Call("get_user_sessions", u, NoValue, NoInfo, FALSE, "none") : u \in Users}
    \cup {Call("get_session_count", NoValue, NoValue, NoInfo, FALSE, "none")}

\* The first statement inside `with self.lock:` of each method
FirstPc(op) ==
    CASE op = "store_session" -> "s115"
      [] op = "remove_session" -> "r165"
      [] op = "cleanup_expired_sessions" -> "c191"
      [] OTHER -> "read"

LockInit ==
    /\ store = "none"
    /\ sessions = Unset
    /\ user_app_sessions = EmptyMap
    /\ db \in LockSeedTables
    /\ now \in StartTimes
    /\ last = NoCall
    /\ lock = Free
    /\ thr = [t \in Threads |-> Idle]
    /\ inflight = <<>>

\* session_store = SessionStore() at import, before any thread calls it
Startup ==
    /\ store = "none"
    /\ Construct

\* A thread calls a method of the store and arrives at `with self.lock:`
Invoke(t) ==
    /\ store = "ok"
    /\ thr[t].pc \in {"idle", "done"}
    /\ \E c \in ThreadCalls :
         thr' = [thr EXCEPT ![t] = [Idle EXCEPT !.pc = "acquire", !.call = c]]
    /\ UNCHANGED <<inflight, store, sessions, user_app_sessions, db, now, last, lock>>

\* The method whose `with self.lock:` block the thread is at or in: the
\* nested remove_session while the sweep is inside its call, else the
\* method the thread called
Running(t) == IF thr[t].inner # NoCall THEN thr[t].inner ELSE thr[t].call

\* An acquire that does not wait for the owner to release
Acquire_noWait(t) ==
    /\ thr[t].pc = "acquire"
    /\ lock' = [owner |-> t, depth |-> lock.depth + 1]
    /\ thr' = [thr EXCEPT ![t].pc = FirstPc(Running(t).op)]
    /\ UNCHANGED <<inflight, store, sessions, user_app_sessions, db, now, last>>

\* RLock.acquire(): blocks while another thread owns the lock; the owner
\* itself may acquire again
Acquire(t) ==
    /\ thr[t].pc = "acquire"
    /\ lock.owner \in {NoValue, t}
    /\ lock' = [owner |-> t, depth |-> lock.depth + 1]
    /\ thr' = [thr EXCEPT ![t].pc = FirstPc(Running(t).op)]
    /\ UNCHANGED <<inflight, store, sessions, user_app_sessions, db, now, last>>

\* RLock.release() at the end of a `with` block, on return or on raise: the
\* owner gives the lock up when it leaves the outermost block.  Leaving the
\* block of the nested remove_session, the sweep goes on with its loop at
\* line 214, or, when remove_session raised, to its except clause at line
\* 225 and from there out of its own block.
Release(t) ==
    /\ thr[t].pc = "release"
    /\ lock' = [owner |-> IF lock.depth = 1 THEN NoValue ELSE lock.owner,
                depth |-> lock.depth - 1]
    /\ thr' = [thr EXCEPT
                 ![t].pc = IF thr[t].inner = NoCall THEN "done"
                           ELSE IF thr[t].inner.result = "raise" THEN "release"
                           ELSE "c214",
                 ![t].inner = NoCall]
    /\ UNCHANGED <<inflight, store, sessions, user_app_sessions, db, now, last>>

\* One statement of store_session: line 115 (the record map), lines 116-118
\* (the index), lines 120-137 (the row).  An exception at any of them is
\* caught at line 139 and the method returns False.
StoreStep(t) ==
    /\ thr[t].pc \in {"s115", "s116", "s120"}
    /\ LET pc == thr[t].pc
           c == thr[t].call
           r == c.info
           raised == \/ pc = "s115" /\ (~sessions.defined \/ r.session_id = Missing)
                     \/ pc = "s120" /\ c.fail
       IN  /\ sessions' = IF pc = "s115" /\ ~raised
                              THEN Attr(DictPut(sessions.map, r.session_id, r))
                              ELSE sessions
           /\ user_app_sessions' =
                  IF pc = "s116"
                      THEN DictPut(user_app_sessions, c.user_id,
                                   DictPut(UserApps(user_app_sessions, c.user_id),
                                           c.app_slug, r.session_id))
                      ELSE user_app_sessions
           /\ db' = IF pc = "s120" /\ ~raised
                        THEN InsertOrReplace(db, StoredRow(c.user_id, c.app_slug, r))
                        ELSE db
           /\ thr' = [thr EXCEPT
                        ![t].pc = IF raised \/ pc = "s120" THEN "release"
                                  ELSE IF pc = "s115" THEN "s116" ELSE "s120",
                        ![t].call.result = IF raised THEN "false"
                                           ELSE IF pc = "s120" THEN "true"
                                           ELSE "none"]
    /\ UNCHANGED <<inflight, store, now, last, lock>>

\* One statement of remove_session, called by the thread or by its sweep:
\* lines 165-172 (the test and the index), lines 174-175 (the record map),
\* lines 177-181 (the row).  Nothing is caught: an exception leaves the
\* method through the `with` block.
RemoveStep(t) ==
    /\ thr[t].pc \in {"r165", "r174", "r177"}
    /\ LET pc == thr[t].pc
           c == Running(t)
           nested == thr[t].inner # NoCall
           u == c.user_id
           a == c.app_slug
           I == user_app_sessions
           found == HasKey(I, u) /\ HasKey(I[u], a)
           raised == \/ pc = "r174" /\ ~sessions.defined
                     \/ pc = "r177" /\ c.fail
           sid == thr[t].session_id
       IN  /\ user_app_sessions' =
                  IF pc = "r165" /\ found
                      THEN LET apps1 == DictDel(I[u], a)
                           IN  IF DOMAIN apps1 = {} THEN DictDel(I, u)
                               ELSE DictPut(I, u, apps1)
                      ELSE I
           /\ sessions' = IF pc = "r174" /\ ~raised /\ HasKey(sessions.map, sid)
                              THEN Attr(DictDel(sessions.map, sid))
                              ELSE sessions
           /\ db' = IF pc = "r177" /\ ~raised THEN DeleteById(db, sid) ELSE db
           /\ LET res == IF raised THEN "raise"
                         ELSE IF pc = "r165" /\ ~found THEN "false"
                         ELSE IF pc = "r177" THEN "true"
                         ELSE "none"
              IN  thr' = [thr EXCEPT
                        ![t].pc = IF raised \/ pc = "r177" \/ (pc = "r165" /\ ~found)
                                      THEN "release"
                                  ELSE IF pc = "r165" THEN "r174" ELSE "r177",
                        ![t].session_id = IF pc = "r165" /\ found THEN I[u][a]
                                          ELSE sid,
                        ![t].call.result = IF nested THEN @ ELSE res,
                        ![t].inner = IF nested THEN [@ EXCEPT !.result = res]
                                     ELSE @]
    /\ UNCHANGED <<inflight, store, now, last, lock>>

\* One part of cleanup_expired_sessions: lines 188-196 (the DELETE), lines
\* 199-211 (the scan of the record map that fills expired_sessions), and one
\* round of the loop of lines 214-220, which calls remove_session for the
\* record's pair: the thread arrives at that method's `with self.lock:`
\* (line 163) owning the lock already.  Every exception is caught at line
\* 225.
CleanupStep(t) ==
    /\ thr[t].pc \in {"c191", "c202", "c214"}
    /\ \E order \in SeqsOf(ExpiredInMemory(sessions)), fail \in BOOLEAN :
         LET pc == thr[t].pc
             c == thr[t].call
             todo == thr[t].expired
             sid == IF todo = << >> THEN NoValue ELSE Head(todo)
             rec == IF sessions.defined /\ HasKey(sessions.map, sid)
                        THEN sessions.map[sid] ELSE EmptyMap
             u == Get(rec, "user_id")
             a == Get(rec, "app_slug")
             calls == ~Falsy(u) /\ ~Falsy(a)
         IN  /\ db' = IF pc = "c191" /\ ~c.fail THEN DeleteExpiredRows(db) ELSE db
             /\ thr' = [thr EXCEPT
                   ![t].pc = CASE pc = "c191" ->
                                    IF c.fail THEN "release" ELSE "c202"
                               [] pc = "c202" ->
                                    IF sessions.defined THEN "c214" ELSE "release"
                               [] OTHER ->
                                    IF todo = << >> THEN "release"
                                    ELSE IF calls THEN "acquire" ELSE "c214",
                   ![t].expired = CASE pc = "c191" -> @
                                    [] pc = "c202" ->
                                         IF sessions.defined THEN order ELSE @
                                    [] OTHER ->
                                         IF todo = << >> THEN @ ELSE Tail(todo),
                   ![t].inner = IF pc = "c214" /\ todo # << >> /\ calls
                                    THEN Call("remove_session", u, a, NoInfo,
                                              fail, "none")
                                    ELSE @]
    /\ UNCHANGED <<inflight, store, sessions, user_app_sessions, now, last, lock>>

\* The one statement of a read-only method
ReadStep(t) ==
    /\ thr[t].pc = "read"
    /\ LET c == thr[t].call
           res == CASE c.op = "has_session" ->
                         IF has_session(c.user_id, c.app_slug) THEN "true" ELSE "false"
                    [] c.op = "get_session" -> get_session(c.user_id, c.app_slug).kind
                    [] c.op = "get_user_sessions" -> get_user_sessions(c.user_id).kind
                    [] OTHER -> get_session_count.kind
       IN  thr' = [thr EXCEPT ![t].pc = "release", ![t].call.result = res]
    /\ UNCHANGED <<inflight, store, sessions, user_app_sessions, db, now, last, lock>>

LockNext ==
    \/ Startup
    \/ \E t \in Threads :
         \/ Invoke(t)
         \/ Acquire(t)
         \/ StoreStep(t)
         \/ RemoveStep(t)
         \/ CleanupStep(t)
         \/ ReadStep(t)
         \/ Release(t)

LockSpec == LockInit /\ [][LockNext]_vars

\* Fair scheduling: a thread that can take a step of its method or release
\* the lock eventually does, and a thread waiting for the lock gets it if
\* the lock stays free.  The lock hands itself to no waiter in particular:
\* a thread that calls again can take it before a thread that waits.
LockFairness ==
    \A t \in Threads :
        /\ WF_vars(StoreStep(t) \/ RemoveStep(t) \/ CleanupStep(t)
                      \/ ReadStep(t) \/ Release(t))
        /\ WF_vars(Acquire(t))

\* Tables found at start of the fair runs: empty, or one active row of
\* (u1, github) that has expired
LiveSeedTables ==
    {D \in LockSeedTables :
        \A x \in D : /\ x.status = "active" /\ x.expires_at # NoTime
                     /\ x.app_slug = "github"}

LiveInit ==
    /\ LockInit
    /\ db \in LiveSeedTables

LockFairSpec == LiveInit /\ [][LockNext]_vars /\ LockFairness

----------------------------------------------------------------------------
(* Vocabulary of the properties *)

Pairs == Users \X Apps

\* The record map as a dict, empty when the attribute does not exist
RecordMap == IF sessions.defined THEN sessions.map ELSE EmptyMap

\* A timestamp lies in the past / a record or row is expired at `now`
InPast(e) == e # NoTime /\ IsoParses(e) /\ InstantLess(e, now)

\* A row counts as an active session: status active and not yet expired
ActiveRow(x) == x.status = "active" /\ ~InPast(x.expires_at)

\* session_ids the index treats as active, and those of the active rows
IndexIds == UNION {DictValues(user_app_sessions[u]) : u \in DOMAIN user_app_sessions}
ActiveRowIds == {x.session_id : x \in {y \in db : ActiveRow(y)}}

\* session_ids of the records held for a pair, in memory or in the table
ActiveIdsOf(u, a) ==
    {sid \in DOMAIN RecordMap :
        Get(RecordMap[sid], "user_id") = u /\ Get(RecordMap[sid], "app_slug") = a}
    \cup {x.session_id : x \in {y \in db : ActiveRow(y) /\ y.user_id = u /\ y.app_slug = a}}

\* The last call was made with a well-formed record and no storage failure
CleanStore(c) ==
    c.op = "store_session" /\ c.info.session_id \in Sids /\ ~c.fail

----------------------------------------------------------------------------
(* Properties *)

\* C1: while the last call is a store_session(u,a,r) that returned true,
\* has_session(u,a) is true and get_session(u,a) returns r.
C1_StoreThenGet ==
    (last.op = "store_session" /\ last.result = "true") =>
        /\ has_session(last.user_id, last.app_slug)
        /\ get_session(last.user_id, last.app_slug)
              = [kind |-> "record", record |-> last.info]

\* C1 case: some store_session call has returned true.
C1_Case == last.op = "store_session" /\ last.result = "true"

\* C2: when store_session(u,a,r2) directly follows store_session(u,a,r1) with
\* another session_id (no storage failure in either), get_session(u,a) then
\* returns r2, get_user_sessions(u) has exactly one entry for app a, and the
\* table no longer holds a row for (u,a) with r1's session_id.
C2_SecondStoreReplaces ==
    [][ (/\ CleanStore(last) /\ CleanStore(last')
         /\ last'.user_id = last.user_id /\ last'.app_slug = last.app_slug
         /\ last'.info.session_id # last.info.session_id)
        => (/\ GetSessionIn(sessions', user_app_sessions',
                            last'.user_id, last'.app_slug)
                 = [kind |-> "record", record |-> last'.info]
            /\ LET l == GetUserSessionsIn(sessions', user_app_sessions',
                                          last'.user_id)
               IN  /\ l.kind = "list"
                   /\ Cardinality({k \in DOMAIN l.entries :
                          Get(l.entries[k], "app_slug") = last'.app_slug}) = 1
            /\ ~\E x \in db' : /\ x.user_id = last'.user_id
                               /\ x.app_slug = last'.app_slug
                               /\ x.session_id = last.info.session_id) ]_vars

\* C3: while the last call is a remove_session(u,a) that returned true,
\* has_session(u,a) is false and a remove_session(u,a) made now returns false.
C3_RemoveThenGone ==
    (last.op = "remove_session" /\ last.result = "true") =>
        /\ ~has_session(last.user_id, last.app_slug)
        /\ RemoveEffect(sessions, user_app_sessions, db,
                        last.user_id, last.app_slug, FALSE).result = "false"

\* C3 case: some remove_session call has returned true.
C3_Case == last.op = "remove_session" /\ last.result = "true"

\* C4: on a constructed store, every (user, app) pair has at most one active
\* session_id, counting the records in memory and the active rows together.
C4_OneActivePerPair ==
    store = "ok" =>
        \A p \in Pairs : Cardinality(ActiveIdsOf(p[1], p[2])) <= 1

\* The case C4 is about: on a constructed store some pair has an active
\* session, in memory or as an active row.
C4_Case ==
    store = "ok" /\ \E p \in Pairs : ActiveIdsOf(p[1], p[2]) # {}

\* C5: on a constructed store, between calls, the session_ids the index
\* treats as active are exactly the session_ids of the active rows.
C5_IndexMatchesTable ==
    store = "ok" => IndexIds = ActiveRowIds

\* The case C5 is about: on a constructed store the index or the table holds
\* an active session_id.
C5_Case ==
    store = "ok" /\ (IndexIds \cup ActiveRowIds) # {}

\* C6: a store_session whose durable write raises returns false and leaves
\* the index and the record map as they were before the call.
C6_FailedStoreRollsBack ==
    [][ (/\ now' = now /\ last'.op = "store_session" /\ last'.fail
         /\ sessions.defined /\ last'.info.session_id \in Sids)
        => (/\ last'.result = "false"
            /\ sessions' = sessions
            /\ user_app_sessions' = user_app_sessions) ]_vars

\* C6 case: a store_session call reached its durable write, which raised.
C6_Case ==
    /\ last.op = "store_session" /\ last.fail
    /\ sessions.defined /\ last.info.session_id \in Sids

\* C7: remove_session(u,a) on an existing pair either returns true with the
\* pair gone from the index, its record gone from the record map and its row
\* gone from the table, or does not return true and leaves all three as
\* they were.
C7_RemoveAllOrNothing ==
    [][ (/\ now' = now /\ last'.op = "remove_session"
         /\ has_session(last'.user_id, last'.app_slug))
        => LET sid == user_app_sessions[last'.user_id][last'.app_slug]
           IN  \/ /\ last'.result = "true"
                  /\ ~HasSessionIn(user_app_sessions', last'.user_id, last'.app_slug)
                  /\ ~HasKey(RecordMap', sid)
                  /\ sid \notin RowIds(db')
               \/ /\ last'.result # "true"
                  /\ UNCHANGED <<sessions, user_app_sessions, db>> ]_vars

\* C7 case: remove_session was called for a pair that had a session.
C7_Case ==
    last.op = "remove_session" /\ last.result \in {"true", "raise"}

\* C8: while the last call is a store_session(u,a,r) that returned true, the
\* index maps (u,a) to r's session_id and the table holds a row with that
\* session_id, user u and app a.
C8_TrueMeansBothWritten ==
    (last.op = "store_session" /\ last.result = "true") =>
        /\ has_session(last.user_id, last.app_slug)
        /\ user_app_sessions[last.user_id][last.app_slug] = last.info.session_id
        /\ \E x \in db : /\ x.session_id = last.info.session_id
                         /\ x.user_id = last.user_id
                         /\ x.app_slug = last.app_slug

\* C9: a construction that meets no storage failure yields a store whose
\* record map holds exactly the active, unexpired rows of the table, leaves
\* the table as it was, and makes get_session_count() report one session
\* when exactly one row is active and unexpired.
C9_LoadsActiveRows ==
    [][ (now' = now /\ last'.op = "construct" /\ ~last'.fail) =>
            /\ store' = "ok"
            /\ db' = db
            /\ DOMAIN RecordMap' = ActiveRowIds'
            /\ (Cardinality(ActiveRowIds') = 1 =>
                   /\ get_session_count'.kind = "counts"
                   /\ get_session_count'.total_sessions = 1) ]_vars

\* C10: right after a sweep that met no storage failure, no record or row
\* whose expires_at lies in the past is left in the index, the record map or
\* the table.
C10_SweepLeavesNoExpired ==
    [][ (now' = now /\ last'.op = "cleanup_expired_sessions" /\ ~last'.fail) =>
            /\ \A x \in db' : ~InPast(x.expires_at)
            /\ \A sid \in DOMAIN RecordMap' :
                  ~InPast(GetTime(RecordMap'[sid], "expires_at"))
            /\ \A sid \in IndexIds' :
                  HasKey(RecordMap', sid) =>
                      ~InPast(GetTime(RecordMap'[sid], "expires_at")) ]_vars

\* C11: a sweep removes no row and no record whose expires_at is in the
\* future, and for every pair whose current record is unexpired
\* has_session and get_session answer after the sweep as before it.
C11_SweepKeepsUnexpired ==
    [][ (now' = now /\ last'.op = "cleanup_expired_sessions") =>
            /\ \A x \in db :
                  (x.expires_at # NoTime /\ InstantLess(now, x.expires_at))
                      => x \in db'
            /\ \A sid \in DOMAIN RecordMap :
                  LET e == GetTime(RecordMap[sid], "expires_at")
                  IN  (e # NoTime /\ InstantLess(now, e))
                          => (HasKey(RecordMap', sid) /\ RecordMap'[sid] = RecordMap[sid])
            /\ \A p \in Pairs :
                  LET g == get_session(p[1], p[2])
                  IN  (g.kind = "record" /\ ~InPast(GetTime(g.record, "expires_at")))
                          => /\ HasSessionIn(user_app_sessions', p[1], p[2])
                             /\ GetSessionIn(sessions', user_app_sessions', p[1], p[2]) = g
      ]_vars

\* The case C11 is about: on a constructed store some pair's current record
\* has an expires_at that is not in the past.
C11_Case ==
    /\ store = "ok"
    /\ \E p \in Pairs :
          LET g == get_session(p[1], p[2])
          IN  g.kind = "record" /\ ~InPast(GetTime(g.record, "expires_at"))

\* Nothing has expired since the instant t: every row and every record whose
\* expires_at lies in the past now had it in the past at t already.
NoNewExpirationsSince(t) ==
    /\ \A x \in db : InPast(x.expires_at) => InstantLess(x.expires_at, t)
    /\ \A sid \in DOMAIN RecordMap :
          LET e == GetTime(RecordMap[sid], "expires_at")
          IN  InPast(e) => InstantLess(e, t)

\* C12: a sweep that follows a sweep, no other call and no new expiration
\* between them and no storage failure in either, removes nothing: it leaves
\* the table, the record map and the index as the first sweep left them.
C12_SweepIdempotent ==
    [][ (/\ now' = now
         /\ store = "ok"
         /\ last.op = "cleanup_expired_sessions" /\ ~last.fail
         /\ last'.op = "cleanup_expired_sessions" /\ ~last'.fail
         /\ NoNewExpirationsSince(last.at))
        => /\ db' = db
           /\ sessions' = sessions
           /\ user_app_sessions' = user_app_sessions ]_vars

\* C15: on a constructed store in which no pair has a session,
\* get_session_count() returns total_sessions 0, active_users 0 and
\* total_app_connections 0.
C15_EmptyStoreCountsZero ==
    (store = "ok" /\ \A p \in Pairs : ~has_session(p[1], p[2])) =>
        get_session_count = [kind |-> "counts", total_sessions |-> 0,
                             active_users |-> 0, total_app_connections |-> 0]

\* C16: no two distinct (user, app) pairs of the index refer to the same
\* session_id.
C16_SessionIdUnique ==
    \A p \in Pairs, q \in Pairs :
        (p # q /\ has_session(p[1], p[2]) /\ has_session(q[1], q[2]))
            => user_app_sessions[p[1]][p[2]] # user_app_sessions[q[1]][q[2]]

\* The case C16 is about: the index holds two distinct pairs.
C16_Case ==
    \E p \in Pairs, q \in Pairs :
        p # q /\ has_session(p[1], p[2]) /\ has_session(q[1], q[2])

\* C17: has_session(u,a) is true exactly when get_session(u,a) returns a
\* record.
C17_HasIffGet ==
    store = "ok" =>
        \A p \in Pairs :
            has_session(p[1], p[2]) <=> (get_session(p[1], p[2]).kind = "record")

\* The case C17 is about: on a constructed store has_session is true of some
\* pair or get_session returns a record for it.
C17_Case ==
    /\ store = "ok"
    /\ \E p \in Pairs :
          has_session(p[1], p[2]) \/ get_session(p[1], p[2]).kind = "record"

\* C18: a read (has_session, get_session, get_user_sessions,
\* get_session_count) changes neither the index, the record map nor the
\* table, and get_session answers from memory alone: not-found whenever the
\* index has no entry for the pair, whatever the table holds.
C18_ReadsChangeNothing ==
    [][ (now' = now /\ last'.op \in {"has_session", "get_session",
                                     "get_user_sessions", "get_session_count"})
        => /\ UNCHANGED <<sessions, user_app_sessions, db>>
           /\ (last'.op = "get_session"
                 /\ ~has_session(last'.user_id, last'.app_slug))
                  => last'.result = "none" ]_vars

\* C18 witness: get_session answered not-found for a pair of which the
\* table holds a row.
C18_Witness ==
    /\ store = "ok" /\ last.op = "get_session" /\ last.result = "none"
    /\ \E x \in db : x.user_id = last.user_id /\ x.app_slug = last.app_slug

\* C19: remove_session(u,a) for a pair that has no index entry returns false
\* and changes neither the index, the record map nor the table.
C19_RemoveAbsentIsNoOp ==
    [][ (/\ now' = now /\ last'.op = "remove_session"
         /\ ~has_session(last'.user_id, last'.app_slug))
        => /\ last'.result = "false"
           /\ UNCHANGED <<sessions, user_app_sessions, db>> ]_vars

\* C19 witness: remove_session returned false for a pair of which the table
\* holds a row.
C19_Witness ==
    /\ store = "ok" /\ last.op = "remove_session" /\ last.result = "false"
    /\ \E x \in db : x.user_id = last.user_id /\ x.app_slug = last.app_slug

\* C20: when a sweep or a construction that meets no storage failure
\* directly follows a clean store_session(u,a,r) whose r has no expires_at,
\* r is in memory afterwards and its row is in the table.
C20_NoExpiryNeverExpires ==
    [][ (/\ CleanStore(last) /\ last.info.expires_at = NoTime
         /\ now' = now /\ ~last'.fail
         /\ last'.op \in {"cleanup_expired_sessions", "construct"})
        => /\ store' = "ok"
           /\ GetSessionIn(sessions', user_app_sessions',
                           last.user_id, last.app_slug).kind = "record"
           /\ HasKey(RecordMap', last.info.session_id)
           /\ last.info.session_id \in RowIds(db') ]_vars

----------------------------------------------------------------------------
(* Concurrent callers (LockSpec) *)

\* A thread is inside the critical section of the method it called
Inside(t) ==
    /\ thr[t].pc \notin {"idle", "done"}
    /\ thr[t].pc = "acquire" => thr[t].inner # NoCall

Mutating(t) ==
    thr[t].call.op \in {"store_session", "remove_session",
                        "cleanup_expired_sessions"}

\* A mutation has written one of the record map and the index, not yet the other
HalfApplied(t) == thr[t].pc \in {"s116", "r174"}

\* Every thread has returned from a store_session call whose durable write
\* did not fail, for pairwise distinct pairs and session ids
DistinctStoresDone ==
    /\ \A t \in Threads :
          /\ thr[t].pc = "done"
          /\ thr[t].call.op = "store_session"
          /\ ~thr[t].call.fail
          /\ thr[t].call.info.session_id # Missing
    /\ \A t1, t2 \in Threads :
          t1 # t2 =>
             /\ <<thr[t1].call.user_id, thr[t1].call.app_slug>>
                    # <<thr[t2].call.user_id, thr[t2].call.app_slug>>
             /\ thr[t1].call.info.session_id # thr[t2].call.info.session_id

\* C13: N concurrent store_session calls for N distinct (user, app) pairs
\* leave exactly N records: once all have returned, each call returned True
\* and its record is in the index, in the record map and in the table, and
\* the index, the record map and the table each hold N records for them.
C13_ConcurrentStoresAllPresent ==
    (store = "ok" /\ DistinctStoresDone) =>
        /\ \A t \in Threads :
              LET c == thr[t].call
              IN  /\ c.result = "true"
                  /\ has_session(c.user_id, c.app_slug)
                  /\ get_session(c.user_id, c.app_slug)
                         = [kind |-> "record", record |-> c.info]
                  /\ \E row \in db : /\ row.session_id = c.info.session_id
                                     /\ row.user_id = c.user_id
                                     /\ row.app_slug = c.app_slug
        /\ Cardinality({p \in Pairs : has_session(p[1], p[2])
                          /\ \E t \in Threads :
                                p = <<thr[t].call.user_id, thr[t].call.app_slug>>})
              = Cardinality(Threads)
        /\ Cardinality({thr[t].call.info.session_id : t \in Threads}
                         \cap DOMAIN RecordMap) = Cardinality(Threads)
        /\ Cardinality({thr[t].call.info.session_id : t \in Threads}
                         \cap RowIds(db)) = Cardinality(Threads)

\* C14: the one lock serializes the store: at most one thread is inside a
\* method's critical section at a time and it is the owner of the lock, and
\* while a thread executes a read-only method no other thread is between
\* the two in-memory writes of a mutation.
C14_LockSerializes ==
    /\ \A t1, t2 \in Threads : (Inside(t1) /\ Inside(t2)) => t1 = t2
    /\ \A t \in Threads : Inside(t) => (lock.owner = t /\ lock.depth >= 1)
    /\ \A t1, t2 \in Threads :
          (thr[t1].pc = "read" /\ t1 # t2) => ~HalfApplied(t2)

\* A thread is inside a mutation while another waits at the lock with a read
C14_Witness ==
    \E t1, t2 \in Threads :
        /\ Inside(t1) /\ Mutating(t1) /\ thr[t1].pc # "release"
        /\ thr[t2].pc = "acquire" /\ ~Mutating(t2)

----------------------------------------------------------------------------
(* Malformed rows *)

\* A row whose metadata json.loads cannot parse
Malformed(x) == ~Falsy(x.metadata) /\ ~JsonParses(x.metadata)

\* C22: a construction that meets no storage failure over a table holding a
\* malformed row still yields a store, and that store's record map holds
\* every well-formed active unexpired row of the table.
C22_MalformedRowDoesNotBlock ==
    [][ (/\ now' = now /\ last'.op = "construct" /\ ~last'.fail
         /\ \E x \in db : Malformed(x))
        => (/\ store' = "ok"
            /\ {x.session_id : x \in {y \in db : ActiveRow(y) /\ ~Malformed(y)}}
                   \subseteq DOMAIN RecordMap') ]_vars

\* C23: a sweep that meets no storage failure returns normally and leaves
\* in the record map no record whose expires_at does not parse, and in the
\* index and the table nothing under the session_id of such a record.
C23_UnparseableExpiryRemoved ==
    [][ (now' = now /\ last'.op = "cleanup_expired_sessions" /\ ~last'.fail)
        => /\ last'.result = "none"
           /\ \A sid \in DOMAIN RecordMap :
                 LET e == GetTime(RecordMap[sid], "expires_at")
                 IN  (e # NoTime /\ ~IsoParses(e)) =>
                        /\ ~HasKey(RecordMap', sid)
                        /\ sid \notin IndexIds'
                        /\ sid \notin RowIds(db') ]_vars

\* C23 case: a sweep ran over a record map that held a record whose
\* expires_at does not parse, or such a record is in the record map.
C23_Case ==
    \E sid \in DOMAIN RecordMap :
        LET e == GetTime(RecordMap[sid], "expires_at")
        IN  e # NoTime /\ ~IsoParses(e)

----------------------------------------------------------------------------
(* Endpoints *)

DisconnectOps == {"disconnect_app", "auth_disconnect_app"}

\* C29: a disconnect request for a pair without a session is answered 404 by
\* the handler of either endpoint, which leaves the index, the record map
\* and the table as they were; a disconnect request for a pair with a
\* session removes that pair's session and leaves every other pair's index
\* entry and record as they were.
C29_DisconnectAbsentIs404 ==
    [][ (now' = now /\ last'.op \in DisconnectOps) =>
          LET u == last'.user_id
              a == last'.app_slug
          IN  /\ ~has_session(u, a) =>
                    /\ last'.result = "404"
                    /\ UNCHANGED <<sessions, user_app_sessions, db>>
              /\ (has_session(u, a) /\ last'.result = "200") =>
                    /\ ~HasSessionIn(user_app_sessions', u, a)
                    /\ \A p \in Pairs \ {<<u, a>>} :
                          /\ HasSessionIn(user_app_sessions', p[1], p[2])
                                = has_session(p[1], p[2])
                          /\ GetSessionIn(sessions', user_app_sessions', p[1], p[2])
                                = get_session(p[1], p[2]) ]_vars

\* C30: cleanup_expired_sessions() returns normally whether or not its
\* durable DELETE fails; the middleware runs its sweep only for a request
\* whose handler has already answered, and returns that handler's response
\* whether the sweep is skipped, succeeds or fails; a skipped sweep changes
\* nothing and a failed one leaves the table as it was.
C30_SweepNeverChangesResponse ==
    [][ /\ (now' = now /\ last'.op = "cleanup_expired_sessions")
              => last'.result = "none"
        /\ (now' = now /\ last'.op = "middleware_return") =>
              /\ last'.result = last'.handled
              /\ \E i \in DOMAIN inflight :
                    /\ inflight[i] = last'.handled
                    /\ inflight' = RemoveAt(inflight, i)
              /\ last'.sweep = "no" => UNCHANGED <<sessions, user_app_sessions, db>>
              /\ last'.sweep = "fail" => db' = db ]_vars

\* C30 witness: a request was answered after a sweep whose DELETE failed
C30_Witness ==
    /\ last.op = "middleware_return" /\ last.sweep = "fail"
    /\ last.result = "404"
    /\ \E x \in db : x.expires_at # NoTime /\ TextLess(x.expires_at, SqlNow)

\* C28: store_session with a record that has no session_id returns False,
\* does not raise, and leaves the index, the record map and the table as
\* they were.
C28_NoSessionIdRejected ==
    [][ (/\ now' = now /\ last'.op = "store_session"
         /\ last'.info.session_id = Missing)
        => (/\ last'.result = "false"
            /\ UNCHANGED <<sessions, user_app_sessions, db>>) ]_vars

\* C28 witness: store_session was called with a record without session_id
\* while the table held rows
C28_Witness ==
    /\ store = "ok" /\ last.op = "store_session"
    /\ last.info.session_id = Missing /\ ~last.fail
    /\ db # {}

\* C26: on a constructed store every index entry points to a session_id of
\* the record map whose record carries the entry's user and app, every
\* record is pointed to by exactly one index entry, no user has an empty
\* app map, and get_session_count() reports total_sessions equal to
\* total_app_connections.
C26_IndexAndRecordMapAgree ==
    store = "ok" =>
        /\ \A u \in DOMAIN user_app_sessions :
              /\ DOMAIN user_app_sessions[u] # {}
              /\ \A a \in DOMAIN user_app_sessions[u] :
                    LET sid == user_app_sessions[u][a]
                    IN  /\ HasKey(RecordMap, sid)
                        /\ Get(RecordMap[sid], "user_id") = u
                        /\ Get(RecordMap[sid], "app_slug") = a
        /\ \A sid \in DOMAIN RecordMap :
              Cardinality({p \in Pairs :
                              /\ has_session(p[1], p[2])
                              /\ user_app_sessions[p[1]][p[2]] = sid}) = 1
        /\ get_session_count.kind = "counts"
        /\ get_session_count.total_sessions
              = get_session_count.total_app_connections

----------------------------------------------------------------------------
(* Restarts and history *)

\* The rows of a pair that a construction at `now` would select
LoadableRowsOf(D, u, a) ==
    {x \in SelectLoadable(D) : x.user_id = u /\ x.app_slug = a}

\* The call just made was a store_session(u,a,...) that returned True
StoredNow(c, u, a) ==
    c.op = "store_session" /\ c.result = "true" /\ c.user_id = u /\ c.app_slug = a

\* C21: a pair gets a session only through a store_session that returns
\* True or through a construction that finds a loadable row of the pair,
\* and a remove_session that returned True, or a sweep that took a pair out
\* of the index, leaves no loadable row of that pair in the table; so a
\* removed or purged pair has no session, in this store and in any store
\* constructed later, until it is stored again.
C21_NeverResurrected ==
    [][ now' = now =>
          \A p \in Pairs :
            /\ (~has_session(p[1], p[2])
                  /\ HasSessionIn(user_app_sessions', p[1], p[2]))
                 => \/ StoredNow(last', p[1], p[2])
                    \/ /\ last'.op = "construct"
                       /\ LoadableRowsOf(db, p[1], p[2]) # {}
            /\ (/\ has_session(p[1], p[2])
                /\ ~HasSessionIn(user_app_sessions', p[1], p[2])
                /\ last'.op \in {"remove_session", "cleanup_expired_sessions"})
                 => LoadableRowsOf(db', p[1], p[2]) = {} ]_vars

\* C21 case: some pair has a session that could be removed or purged.
C21_Case == \E p \in Pairs : has_session(p[1], p[2])

\* C24: a construction without storage failure over the table of a store
\* in which a pair has an unexpired record r yields a store whose
\* get_session for that pair returns a record with r's session_id, user_id,
\* app_slug, created_at and expires_at.
C24_RestartRoundTrip ==
    [][ (now' = now /\ last'.op = "construct" /\ ~last'.fail) =>
          \A p \in Pairs :
            LET g == get_session(p[1], p[2])
                h == GetSessionIn(sessions', user_app_sessions', p[1], p[2])
            IN  (g.kind = "record" /\ ~InPast(GetTime(g.record, "expires_at")))
                  => /\ h.kind = "record"
                     /\ \A k \in {"session_id", "user_id", "app_slug"} :
                           Get(h.record, k) = Get(g.record, k)
                     /\ \A k \in {"created_at", "expires_at"} :
                           GetTime(h.record, k) = GetTime(g.record, k) ]_vars

\* C24 case: a pair has a record, left by a store_session that returned True.
C24_Case == \E p \in Pairs : get_session(p[1], p[2]).kind = "record"

\* C25: across every step, a session_id that stays in the table keeps its
\* row's user_id, app_slug and created_at, and a session_id that stays in
\* the record map keeps its record's user_id, app_slug and created_at.
C25_IdentityImmutable ==
    [][ /\ \A x \in db : \A y \in db' :
              x.session_id = y.session_id =>
                 /\ x.user_id = y.user_id
                 /\ x.app_slug = y.app_slug
                 /\ x.created_at = y.created_at
        /\ \A sid \in DOMAIN RecordMap \cap DOMAIN RecordMap' :
              /\ Get(RecordMap[sid], "user_id") = Get(RecordMap'[sid], "user_id")
              /\ Get(RecordMap[sid], "app_slug") = Get(RecordMap'[sid], "app_slug")
              /\ GetTime(RecordMap[sid], "created_at")
                    = GetTime(RecordMap'[sid], "created_at") ]_vars

\* C25 case: a store_session has returned True, so that a session_id has
\* identity fields recorded by this store.
C25_Case == last.op = "store_session" /\ last.result = "true"

====
